---- MODULE Spec2Model ----
(***************************************************************************)
(* Model of the LTR-329 ambient light sensor driver (LTR-329.c, LTR-329.h) *)
(* and of the poll cycle that drives it.                                   *)
(*                                                                         *)
(* The driver talks to the device through two HAL calls that either        *)
(* succeed (HAL_OK) or fail.  A failed HAL_I2C_Mem_Read leaves the         *)
(* caller's receive byte untouched; in LTR_329_Read_All that byte is an    *)
(* uninitialised automatic variable, so its value is any byte.             *)
(*                                                                         *)
(* Numbers.  The lux value is a C float.  It is modelled as the exact      *)
(* rational num/den that the float expression approximates, in units of    *)
(* 1/LuxScale for the datasheet coefficients, or as one of the IEEE-754    *)
(* specials the divisions by zero produce (inf, nan).  The ratio that      *)
(* selects the formula is modelled as a binary32 value (24-bit significand,*)
(* round to nearest even) and compared with the binary32 literals of the   *)
(* source, so that the boundary cases are decided the way the build        *)
(* decides them.                                                           *)
(***************************************************************************)
EXTENDS Integers, Sequences, FiniteSets, TLC

VARIABLES
    pc,       \* position of the program: which call/step comes next
    ltr329,   \* the LTR329_t sample structure
    loc,      \* automatic variables of LTR_329_Read_All (raw bytes)
    busLog,   \* bus operations issued by the current driver call, in order
    uart,     \* messages transmitted on the UART by the current driver call
    stored,   \* sample fields assigned by the current LTR_329_Read_All
    branch    \* which arm of LTR_329_Calculate_Lux's if-chain ran last

vars == <<pc, ltr329, loc, busLog, uart, stored, branch>>

(***************************************************************************)
(* Register map (LTR-329.h)                                                *)
(***************************************************************************)
LTR_329_ALS_CONTR == 128
LTR_329_PART_ID_ADDR == 134
LTR_329_ALS_DATA_CH1_0 == 136
LTR_329_ALS_DATA_CH1_1 == 137
LTR_329_ALS_DATA_CH0_0 == 138
LTR_329_ALS_DATA_CH0_1 == 139
LTR_329_ALS_STATUS == 140
LTR_329_PART_ID == 160

(***************************************************************************)
(* Lookup tables (LTR-329.c).  C arrays are 0-based, sequences 1-based.    *)
(***************************************************************************)
gainMap == <<1, 2, 4, 8, 48, 96>>
intTimeMap == <<100, 50, 200, 400, 150, 250, 300, 350>>

(***************************************************************************)
(* Bytes the device may deliver (and an uninitialised byte may hold).      *)
(* Data registers: both values of a bit, enough to tell low from high and  *)
(* one register from another.  Control and status registers: the first     *)
(* NumControlBytes / NumStatusBytes of the samples below.                  *)
(***************************************************************************)
NumControlBytes == 2
NumStatusBytes == 2

DataBytes == {0, 1}
\* 0x01 active mode, gain field 0 (what LTR_329_Init writes); 0x04 gain
\* field 1; 0x1D active mode, gain field 7; 0x00 stand-by, gain field 0
ControlByteSamples == <<1, 4, 29, 0>>
\* 0x00 code 0; 0x08 code 1; 0x04 data-status flag with code 0;
\* 0x80 data-invalid flag with code 0
StatusByteSamples == <<0, 8, 4, 128>>

Min(a, b) == IF a < b THEN a ELSE b

ControlBytes == {ControlByteSamples[i] : i \in 1..Min(NumControlBytes, Len(ControlByteSamples))}
StatusBytes == {StatusByteSamples[i] : i \in 1..Min(NumStatusBytes, Len(StatusByteSamples))}
IdBytes == {160, 0}

\* The decoding switches are also run over whole ranges of register bytes:
\* 0..MaxControlByte covers the mode bits and the gain field (bits 4..0),
\* 0..MaxStatusByte the gain and data-status bits of ALS_STATUS (bits 6..0)
MaxControlByte == 31
MaxStatusByte == 127
ControlRange == 0..MaxControlByte
StatusRange == 0..MaxStatusByte

HAL == {TRUE, FALSE}   \* HAL_OK or not

(***************************************************************************)
(* Integer helpers: C's bitwise operators on non-negative ints.            *)
(***************************************************************************)
RECURSIVE BitAnd(_, _)
BitAnd(a, b) ==
    IF a = 0 \/ b = 0 THEN 0
    ELSE (IF a % 2 = 1 /\ b % 2 = 1 THEN 1 ELSE 0) + 2 * BitAnd(a \div 2, b \div 2)

RECURSIVE BitOr(_, _)
BitOr(a, b) ==
    IF a = 0 THEN b
    ELSE IF b = 0 THEN a
    ELSE (IF a % 2 = 1 \/ b % 2 = 1 THEN 1 ELSE 0) + 2 * BitOr(a \div 2, b \div 2)

RECURSIVE ShiftLeft(_, _)
ShiftLeft(a, n) == IF n = 0 THEN a ELSE ShiftLeft(2 * a, n - 1)

RECURSIVE ShiftRight(_, _)
ShiftRight(a, n) == IF n = 0 THEN a ELSE ShiftRight(a \div 2, n - 1)

U16(x) == x % 65536

(***************************************************************************)
(* binary32 division of two non-negative integers below 2^24 (both exactly *)
(* representable), as `(float)a / (float)b` computes it.  A normal result  *)
(* is mant * 2^-(k+23) with 2^23 <= mant < 2^24.  Only a <= b is needed:   *)
(* the dividend is c1 and the divisor c0 + c1.                             *)
(***************************************************************************)
F32Nan == [kind |-> "nan", mant |-> 0, k |-> 0]
F32Inf == [kind |-> "inf", mant |-> 0, k |-> 0]
F32Zero == [kind |-> "zero", mant |-> 0, k |-> 0]

RECURSIVE NormShift(_, _, _)
NormShift(a, b, k) == IF a >= b THEN <<a, k>> ELSE NormShift(2 * a, b, k + 1)

RECURSIVE QuotBits(_, _, _, _)
QuotBits(rem, b, n, acc) ==
    IF n = 0 THEN <<acc, rem>>
    ELSE LET r2 == 2 * rem
             bit == IF r2 >= b THEN 1 ELSE 0
         IN QuotBits(r2 - bit * b, b, n - 1, 2 * acc + bit)

F32Round(acc, rem, b, k) ==
    LET up == (2 * rem > b) \/ (2 * rem = b /\ acc % 2 = 1)
        m == IF up THEN acc + 1 ELSE acc
    IN IF m = 16777216
       THEN [kind |-> "norm", mant |-> 8388608, k |-> k - 1]
       ELSE [kind |-> "norm", mant |-> m, k |-> k]

F32Div(a, b) ==
    IF b = 0 THEN (IF a = 0 THEN F32Nan ELSE F32Inf)
    ELSE IF a = 0 THEN F32Zero
    ELSE LET n == NormShift(a, b, 0)
             q == QuotBits(n[1] - b, b, 23, 1)
         IN F32Round(q[1], q[2], b, n[2])

\* x < y on binary32 values in [0, 1]; any comparison with a NaN is false
F32Less(x, y) ==
    IF x.kind = "nan" \/ y.kind = "nan" THEN FALSE
    ELSE IF x.kind = "inf" THEN FALSE
    ELSE IF y.kind = "inf" THEN TRUE
    ELSE IF x.kind = "zero" THEN y.kind = "norm"
    ELSE IF y.kind = "zero" THEN FALSE
    ELSE x.k > y.k \/ (x.k = y.k /\ x.mant < y.mant)

\* x >= y
F32Geq(x, y) ==
    IF x.kind = "nan" \/ y.kind = "nan" THEN FALSE
    ELSE ~F32Less(x, y)

\* the literals 0.45f (0x3EE66666), 0.64f (0x3F23D70A), 0.85f (0x3F59999A)
F32_0_45 == [kind |-> "norm", mant |-> 15099494, k |-> 2]
F32_0_64 == [kind |-> "norm", mant |-> 10737418, k |-> 1]
F32_0_85 == [kind |-> "norm", mant |-> 14260634, k |-> 1]

(***************************************************************************)
(* Lux values: num/den exactly, or an IEEE special (den = 0; for "inf" num *)
(* is the sign).  The datasheet coefficients are in units of 1/LuxScale.   *)
(***************************************************************************)
LuxScale == 10000
K1a == 17743
K1b == 11059
K2a == 42785
K2b == 19548
K3a == 5926
K3b == 1185

LuxZero == [kind |-> "fin", num |-> 0, den |-> 1]
LuxNan == [kind |-> "nan", num |-> 0, den |-> 0]
LuxInf(sign) == [kind |-> "inf", num |-> sign, den |-> 0]

\* (float)(double expression): the linear combination of the channels
LuxLin(n) == IF n = 0 THEN LuxZero ELSE [kind |-> "fin", num |-> n, den |-> LuxScale]

\* x / d for an unsigned integer d converted to float
LuxDiv(x, d) ==
    IF x.kind = "nan" THEN LuxNan
    ELSE IF x.kind = "inf" THEN x
    ELSE IF d = 0
         THEN (IF x.num = 0 THEN LuxNan
               ELSE IF x.num > 0 THEN LuxInf(1) ELSE LuxInf(-1))
    ELSE IF x.num = 0 THEN LuxZero
    ELSE [kind |-> "fin", num |-> x.num, den |-> x.den * d]

(***************************************************************************)
(* LTR_329_Calculate_Lux                                                   *)
(***************************************************************************)
\* the guard of line 244; c0Data + c1Data is an int sum of two uint16_t
Degenerate(s) == s.alsGainData = 0 \/ s.alsIntData = 0 \/ (s.c0Data + s.c1Data) = 0

\* RatioBranch with the first boundary made inclusive (ratio <= 0.45f)
RatioBranch_Inclusive(ratio) ==
    IF F32Less(ratio, F32_0_45) \/ ratio = F32_0_45 THEN 1
    ELSE IF F32Less(ratio, F32_0_64) /\ F32Geq(ratio, F32_0_45) THEN 2
    ELSE IF F32Less(ratio, F32_0_85) /\ F32Geq(ratio, F32_0_64) THEN 3
    ELSE 4

\* Ratio with the sum of the channels wrapped at 16 bits (a quotient above 1
\* compares like inf with the three literals)
Ratio_Wrapped(s) ==
    LET sum == U16(s.c0Data + s.c1Data)
    IN IF s.c1Data > sum THEN F32Inf ELSE F32Div(s.c1Data, sum)

Ratio(s) == F32Div(s.c1Data, s.c0Data + s.c1Data)

\* RatioBranch whose second arm has no upper limit (ratio >= 0.45f only)
RatioBranch_NoUpper(ratio) ==
    IF F32Less(ratio, F32_0_45) THEN 1
    ELSE IF F32Geq(ratio, F32_0_45) THEN 2
    ELSE 4

\* which arm of the if / else-if chain runs: 1, 2, 3, or 4 for the final else
RatioBranch(ratio) ==
    IF F32Less(ratio, F32_0_45) THEN 1
    ELSE IF F32Less(ratio, F32_0_64) /\ F32Geq(ratio, F32_0_45) THEN 2
    ELSE IF F32Less(ratio, F32_0_85) /\ F32Geq(ratio, F32_0_64) THEN 3
    ELSE 4

\* 4.2785*c0 - 1.9548*c1 in units of 1/LuxScale.  The source computes it in
\* double; here the common part of the channels is taken out first so that
\* no intermediate product leaves the 32-bit integers of the checker.
LuxNum2(c0, c1) ==
    LET m == Min(c0, c1)
    IN (K2a - K2b) * m + K2a * (c0 - m) - K2b * (c1 - m)

\* BranchLux with the channels exchanged in the first arm
BranchLux_Swapped(b, s) ==
    CASE b = 1 -> LuxDiv(LuxDiv(LuxLin(K1a * s.c1Data + K1b * s.c0Data), s.alsGainData), s.alsIntData)
      [] b = 2 -> LuxDiv(LuxDiv(LuxLin(LuxNum2(s.c0Data, s.c1Data)), s.alsGainData), s.alsIntData)
      [] b = 3 -> LuxDiv(LuxDiv(LuxLin(K3a * s.c0Data + K3b * s.c1Data), s.alsGainData), s.alsIntData)
      [] OTHER -> LuxZero

\* the value the selected arm assigns to alsLuxData
BranchLux(b, s) ==
    CASE b = 1 -> LuxDiv(LuxDiv(LuxLin(K1a * s.c0Data + K1b * s.c1Data), s.alsGainData), s.alsIntData)
      [] b = 2 -> LuxDiv(LuxDiv(LuxLin(LuxNum2(s.c0Data, s.c1Data)), s.alsGainData), s.alsIntData)
      [] b = 3 -> LuxDiv(LuxDiv(LuxLin(K3a * s.c0Data + K3b * s.c1Data), s.alsGainData), s.alsIntData)
      [] OTHER -> LuxZero

\* CalculateLux without the final else: from 0.85 on nothing is assigned
CalculateLux_NoElse(s) ==
    LET s1 == IF Degenerate(s) THEN [s EXCEPT !.alsLuxData = LuxZero] ELSE s
        b == RatioBranch(Ratio(s1))
    IN IF b = 4 THEN s1 ELSE [s1 EXCEPT !.alsLuxData = BranchLux(b, s1)]

\* The guard assigns 0.0f and falls through (there is no return): every arm
\* of the chain then assigns alsLuxData again.
CalculateLux(s) ==
    LET s1 == IF Degenerate(s) THEN [s EXCEPT !.alsLuxData = LuxZero] ELSE s
        b == RatioBranch(Ratio(s1))
    IN [s1 EXCEPT !.alsLuxData = BranchLux(b, s1)]

(***************************************************************************)
(* Decoding switches of LTR_329_Read_All: the operand is the raw byte      *)
(***************************************************************************)
\* DecodeGain indexing gainMap by the code itself
DecodeGain_Indexed(raw) == IF raw < 6 THEN gainMap[raw + 1] ELSE 0

DecodeGain(raw) ==
    CASE raw = 0 -> gainMap[1]
      [] raw = 1 -> gainMap[2]
      [] raw = 2 -> gainMap[3]
      [] raw = 3 -> gainMap[4]
      [] raw = 6 -> gainMap[5]
      [] raw = 7 -> gainMap[6]
      [] OTHER -> 0

DecodeIntTime(raw) ==
    CASE raw = 0 -> intTimeMap[1]
      [] raw = 1 -> intTimeMap[2]
      [] raw = 2 -> intTimeMap[3]
      [] raw = 3 -> intTimeMap[4]
      [] raw = 4 -> intTimeMap[5]
      [] raw = 5 -> intTimeMap[6]
      [] raw = 6 -> intTimeMap[7]
      [] raw = 7 -> intTimeMap[8]
      [] OTHER -> 0

\* Combine with the two bytes exchanged
Combine_Swapped(high, low) == U16(BitOr(ShiftLeft(low, 8), high))

\* (high << 8) | low, stored in a uint16_t
Combine(high, low) == U16(BitOr(ShiftLeft(high, 8), low))

(***************************************************************************)
(* State after construction: the sample structure and the locals are       *)
(* zero (static storage), nothing has been sent.                           *)
(***************************************************************************)
ZeroSample ==
    [c0Data |-> 0, c1Data |-> 0, alsGainData |-> 0, alsIntData |-> 0,
     alsLuxData |-> LuxZero]

NoLocals ==
    [c1RawData1 |-> 0, c1RawData2 |-> 0, c0RawData1 |-> 0, c0RawData2 |-> 0,
     gainRawData |-> 0, intTimeRawData |-> 0]

Init ==
    /\ pc = "boot"
    /\ ltr329 = ZeroSample
    /\ loc = NoLocals
    /\ busLog = <<>>
    /\ uart = <<>>
    /\ stored = {}
    /\ branch = 0

\* one bus operation as the log records it; a failed read delivers no byte
BusRead(addr, ok, b) == [op |-> "read", addr |-> addr, ok |-> ok, val |-> IF ok THEN b ELSE -1]
BusWrite(addr, ok, b) == [op |-> "write", addr |-> addr, ok |-> ok, val |-> b]
BusDelay(ms) == [op |-> "delay", addr |-> 0, ok |-> TRUE, val |-> ms]

ReadError(ok) == IF ok THEN <<>> ELSE <<"I2C Read Error">>
WriteError(ok) == IF ok THEN <<>> ELSE <<"I2C Write Error">>

(***************************************************************************)
(* LTR_329_Init, in three steps: LTR_329_Reset, the part-ID check, the     *)
(* switch to active mode.  No step returns early.                          *)
(***************************************************************************)
LTR_329_Reset ==
    /\ pc = "boot"
    /\ \E ok \in HAL :
          /\ busLog' = <<BusWrite(LTR_329_ALS_CONTR, ok, 2), BusDelay(25)>>
          /\ uart' = WriteError(ok)
    /\ pc' = "init_id"
    /\ UNCHANGED <<ltr329, loc, stored, branch>>

\* Init_CheckID returning from LTR_329_Init when the part-ID check fails
Init_CheckID_Return ==
    /\ pc = "init_id"
    /\ \E ok \in HAL, b \in IdBytes :
          LET deviceID == IF ok THEN b ELSE 0
              bad == (~ok) \/ BitAnd(deviceID, 240) # LTR_329_PART_ID
          IN /\ busLog' = Append(busLog, BusRead(LTR_329_PART_ID_ADDR, ok, b))
             /\ uart' = uart \o (IF bad THEN <<"I2C Read Error">> ELSE <<>>)
             /\ pc' = IF bad THEN "idle" ELSE "init_act"
    /\ UNCHANGED <<ltr329, loc, stored, branch>>

Init_CheckID ==
    /\ pc = "init_id"
    /\ \E ok \in HAL, b \in IdBytes :
          LET deviceID == IF ok THEN b ELSE 0
          IN /\ busLog' = Append(busLog, BusRead(LTR_329_PART_ID_ADDR, ok, b))
             /\ uart' = uart \o (IF (~ok) \/ BitAnd(deviceID, 240) # LTR_329_PART_ID
                                 THEN <<"I2C Read Error">> ELSE <<>>)
    /\ pc' = "init_act"
    /\ UNCHANGED <<ltr329, loc, stored, branch>>

Init_Activate ==
    /\ pc = "init_act"
    /\ \E ok \in HAL :
          /\ busLog' = Append(busLog, BusWrite(LTR_329_ALS_CONTR, ok, 1))
          /\ uart' = uart \o WriteError(ok)
    /\ pc' = "idle"
    /\ UNCHANGED <<ltr329, loc, stored, branch>>

(***************************************************************************)
(* LTR_329_Read_All, one step per register read; a step includes the       *)
(* statements up to the next read.  In every step `b` is the byte the      *)
(* device delivers when the read succeeds, and the indeterminate value of  *)
(* the untouched automatic variable when it fails.                         *)
(***************************************************************************)
ReadCh1Low ==
    /\ pc = "idle"
    /\ \E ok \in HAL, b \in DataBytes :
          /\ busLog' = <<BusRead(LTR_329_ALS_DATA_CH1_0, ok, b)>>
          /\ uart' = ReadError(ok)
          /\ loc' = [NoLocals EXCEPT !.c1RawData1 = b]
    /\ stored' = {}
    /\ pc' = "rd_c1hi"
    /\ UNCHANGED <<ltr329, branch>>

ReadCh1High ==
    /\ pc = "rd_c1hi"
    /\ \E ok \in HAL, b \in DataBytes :
          /\ busLog' = Append(busLog, BusRead(LTR_329_ALS_DATA_CH1_1, ok, b))
          /\ uart' = uart \o ReadError(ok)
          /\ loc' = [loc EXCEPT !.c1RawData2 = b]
          /\ ltr329' = [ltr329 EXCEPT !.c1Data = Combine(b, loc.c1RawData1)]
    /\ stored' = stored \cup {"c1Data"}
    /\ pc' = "rd_c0lo"
    /\ UNCHANGED <<branch>>

\* ReadCh0Low returning from LTR_329_Read_All when the read fails
ReadCh0Low_FailFast ==
    /\ pc = "rd_c0lo"
    /\ \E ok \in HAL, b \in DataBytes :
          /\ busLog' = Append(busLog, BusRead(LTR_329_ALS_DATA_CH0_0, ok, b))
          /\ uart' = uart \o ReadError(ok)
          /\ loc' = [loc EXCEPT !.c0RawData1 = b]
          /\ pc' = IF ok THEN "rd_c0hi" ELSE "sampled"
    /\ UNCHANGED <<ltr329, stored, branch>>

ReadCh0Low ==
    /\ pc = "rd_c0lo"
    /\ \E ok \in HAL, b \in DataBytes :
          /\ busLog' = Append(busLog, BusRead(LTR_329_ALS_DATA_CH0_0, ok, b))
          /\ uart' = uart \o ReadError(ok)
          /\ loc' = [loc EXCEPT !.c0RawData1 = b]
    /\ pc' = "rd_c0hi"
    /\ UNCHANGED <<ltr329, stored, branch>>

ReadCh0High ==
    /\ pc = "rd_c0hi"
    /\ \E ok \in HAL, b \in DataBytes :
          /\ busLog' = Append(busLog, BusRead(LTR_329_ALS_DATA_CH0_1, ok, b))
          /\ uart' = uart \o ReadError(ok)
          /\ loc' = [loc EXCEPT !.c0RawData2 = b]
          /\ ltr329' = [ltr329 EXCEPT !.c0Data = Combine(b, loc.c0RawData1)]
    /\ stored' = stored \cup {"c0Data"}
    /\ pc' = "rd_contr"
    /\ UNCHANGED <<branch>>

ReadControlFrom(bytes) ==
    /\ pc = "rd_contr"
    /\ \E ok \in HAL, b \in bytes :
          /\ busLog' = Append(busLog, BusRead(LTR_329_ALS_CONTR, ok, b))
          /\ uart' = uart \o ReadError(ok)
                          \o (IF DecodeGain(b) = 0 THEN <<"Invalid ALS Gain Data">> ELSE <<>>)
          /\ loc' = [loc EXCEPT !.gainRawData = b]
          /\ ltr329' = [ltr329 EXCEPT !.alsGainData = DecodeGain(b)]
    /\ stored' = stored \cup {"alsGainData"}
    /\ pc' = "rd_status"
    /\ UNCHANGED <<branch>>

ReadStatusFrom(bytes) ==
    /\ pc = "rd_status"
    /\ \E ok \in HAL, b \in bytes :
          /\ busLog' = Append(busLog, BusRead(LTR_329_ALS_STATUS, ok, b))
          /\ uart' = uart \o ReadError(ok)
                          \o (IF DecodeIntTime(b) = 0
                              THEN <<"Invalid ALS Integration Time Data">> ELSE <<>>)
          /\ loc' = [loc EXCEPT !.intTimeRawData = b]
          /\ ltr329' = [ltr329 EXCEPT !.alsIntData = DecodeIntTime(b)]
    /\ stored' = stored \cup {"alsIntData"}
    /\ pc' = "sampled"
    /\ UNCHANGED <<branch>>

ReadControl == ReadControlFrom(ControlBytes)
ReadStatus == ReadStatusFrom(StatusBytes)

(***************************************************************************)
(* LTR_329_Calculate_Lux on the sample just read, which ends the cycle     *)
(***************************************************************************)
LTR_329_Calculate_Lux ==
    /\ pc = "sampled"
    /\ ltr329' = CalculateLux(ltr329)
    /\ branch' = RatioBranch(Ratio(ltr329))
    /\ pc' = "idle"
    /\ UNCHANGED <<loc, busLog, uart, stored>>

Next ==
    \/ LTR_329_Reset
    \/ Init_CheckID
    \/ Init_Activate
    \/ ReadCh1Low
    \/ ReadCh1High
    \/ ReadCh0Low
    \/ ReadCh0High
    \/ ReadControl
    \/ ReadStatus
    \/ LTR_329_Calculate_Lux

Spec == Init /\ [][Next]_vars

(***************************************************************************)
(* The decoding half of LTR_329_Read_All over whole ranges of register     *)
(* bytes, started where both channels have been read (all four data reads  *)
(* delivered 0).                                                           *)
(***************************************************************************)
InitDecode ==
    /\ pc = "rd_contr"
    /\ ltr329 = ZeroSample
    /\ loc = NoLocals
    /\ busLog = <<BusRead(LTR_329_ALS_DATA_CH1_0, TRUE, 0), BusRead(LTR_329_ALS_DATA_CH1_1, TRUE, 0),
                  BusRead(LTR_329_ALS_DATA_CH0_0, TRUE, 0), BusRead(LTR_329_ALS_DATA_CH0_1, TRUE, 0)>>
    /\ uart = <<>>
    /\ stored = {"c1Data", "c0Data"}
    /\ branch = 0

ReadControlAny == ReadControlFrom(ControlRange)
ReadStatusAny == ReadStatusFrom(StatusRange)

NextDecode == ReadControlAny \/ ReadStatusAny

SpecDecode == InitDecode /\ [][NextDecode]_vars

(***************************************************************************)
(* LTR_329_Calculate_Lux as a function of the sample: the sample is drawn  *)
(* from the values below, then the function runs once.                     *)
(***************************************************************************)
LuxChannels == {0, 15, 36, 45, 55, 64, 85, 200, 1000}
LuxGains == {0, 1, 2, 4, 8, 48, 96}
LuxIntTimes == {0, 50, 100, 150, 200, 250, 300, 350, 400}
LuxBefore == {LuxZero, [kind |-> "fin", num |-> 1, den |-> 1]}

InitLux ==
    /\ pc = "sampled"
    /\ ltr329 \in [c0Data : LuxChannels, c1Data : LuxChannels, alsGainData : LuxGains,
                   alsIntData : LuxIntTimes, alsLuxData : LuxBefore]
    /\ loc = NoLocals
    /\ busLog = <<>>
    /\ uart = <<>>
    /\ stored = {}
    /\ branch = 0

NextLux == LTR_329_Calculate_Lux

SpecLux == InitLux /\ [][NextLux]_vars

(***************************************************************************)
(* Reading the bus log of the current call                                 *)
(***************************************************************************)
ReadAddrs == [i \in 1..Len(busLog) |-> busLog[i].addr]
AllReads == \A i \in 1..Len(busLog) : busLog[i].op = "read"
RxOk(addr) == \E i \in 1..Len(busLog) : busLog[i].op = "read" /\ busLog[i].addr = addr /\ busLog[i].ok
RxFailed(addr) == \E i \in 1..Len(busLog) : busLog[i].op = "read" /\ busLog[i].addr = addr /\ ~busLog[i].ok
RxVal(addr) == busLog[CHOOSE i \in 1..Len(busLog) : busLog[i].op = "read" /\ busLog[i].addr = addr].val
NumFailed == Cardinality({i \in 1..Len(busLog) : ~busLog[i].ok})
NumReadErrors == Cardinality({i \in 1..Len(uart) : uart[i] = "I2C Read Error"})

\* LTR_329_Calculate_Lux has run on the sample that ltr329 holds
LuxDone == pc = "idle" /\ branch # 0
NonDegenerate == ltr329.alsGainData > 0 /\ ltr329.alsIntData > 0 /\ ltr329.c0Data + ltr329.c1Data > 0

\* the tables of the datasheet, by field code
TableGain(code) ==
    CASE code = 0 -> 1 [] code = 1 -> 2 [] code = 2 -> 4 [] code = 3 -> 8
      [] code = 6 -> 48 [] code = 7 -> 96 [] OTHER -> 0
TableIntTime(code) ==
    CASE code = 0 -> 100 [] code = 1 -> 50 [] code = 2 -> 200 [] code = 3 -> 400
      [] code = 4 -> 150 [] code = 5 -> 250 [] code = 6 -> 300 [] code = 7 -> 350
      [] OTHER -> 0

(***************************************************************************)
(* C1: whenever gain == 0, intTimeMs == 0 or channel0 + channel1 == 0, the *)
(* lux that LTR_329_Calculate_Lux leaves in the sample is exactly 0.0.     *)
(* The guard assigns 0.0f but does not return, so the formula arms run and *)
(* divide by the zero gain or integration time.                            *)
(***************************************************************************)
C1_DegenerateIsZero ==
    (LuxDone /\ ~NonDegenerate) => ltr329.alsLuxData = LuxZero

(***************************************************************************)
(* C2: the gain switch maps code 0 to 1, 1 to 2, 2 to 4, 3 to 8, 6 to 48,  *)
(* 7 to 96, and the reserved codes 4 and 5 to the invalid marker 0.  The   *)
(* code is the operand of the switch.                                      *)
(***************************************************************************)
C2_GainTable ==
    pc = "rd_status" =>
        LET code == loc.gainRawData
            gain == ltr329.alsGainData
        IN /\ code = 0 => gain = 1
           /\ code = 1 => gain = 2
           /\ code = 2 => gain = 4
           /\ code = 3 => gain = 8
           /\ code = 6 => gain = 48
           /\ code = 7 => gain = 96
           /\ code \in {4, 5} => gain = 0

C2_Witness ==
    pc = "rd_status" /\ RxOk(LTR_329_ALS_CONTR) /\ loc.gainRawData = 6 /\ ltr329.alsGainData = 48

(***************************************************************************)
(* C3: integration-time decoding maps the codes 0..7 to 100, 50, 200, 400, *)
(* 150, 250, 300, 350 ms, and after LTR_329_Read_All the decoded           *)
(* integration time is never 0, whatever byte the status register          *)
(* returned.                                                               *)
(***************************************************************************)
C3_IntTimeTotal ==
    (pc = "sampled" /\ RxOk(LTR_329_ALS_STATUS)) =>
        /\ loc.intTimeRawData \in 0..7 => ltr329.alsIntData = TableIntTime(loc.intTimeRawData)
        /\ ltr329.alsIntData # 0

(***************************************************************************)
(* C4: for gain > 0, intTimeMs > 0 and c0 + c1 > 0 the arm that runs is    *)
(* decided by ratio = c1/(c0+c1) over half-open intervals: below 0.45 the  *)
(* first, [0.45, 0.64) the second, [0.64, 0.85) the third, from 0.85 on    *)
(* the lux is 0.0; (55,45) runs the second, (36,64) the third, (15,85)     *)
(* gives 0.0.  The intervals are stated on the exact ratio.                *)
(***************************************************************************)
C4_BranchByRatio ==
    (LuxDone /\ NonDegenerate) =>
        LET c0 == ltr329.c0Data
            c1 == ltr329.c1Data
            sum == c0 + c1
        IN /\ branch = 1 <=> 100 * c1 < 45 * sum
           /\ branch = 2 <=> (45 * sum <= 100 * c1 /\ 100 * c1 < 64 * sum)
           /\ branch = 3 <=> (64 * sum <= 100 * c1 /\ 100 * c1 < 85 * sum)
           /\ branch = 4 <=> 85 * sum <= 100 * c1
           /\ branch = 4 => ltr329.alsLuxData = LuxZero
           /\ (c0 = 55 /\ c1 = 45) => branch = 2
           /\ (c0 = 36 /\ c1 = 64) => branch = 3
           /\ (c0 = 15 /\ c1 = 85) => (branch = 4 /\ ltr329.alsLuxData = LuxZero)

C4_Witness ==
    LuxDone /\ NonDegenerate /\ ltr329.c0Data = 55 /\ ltr329.c1Data = 45 /\ branch = 2

(***************************************************************************)
(* C5: for non-degenerate inputs the lux is the selected arm's linear      *)
(* combination of the channels divided by the gain and by the integration  *)
(* time: 1.7743*c0 + 1.1059*c1, 4.2785*c0 - 1.9548*c1 or                   *)
(* 0.5926*c0 + 0.1185*c1; for c0 = 1000, c1 = 200, gain 1, 100 ms it is    *)
(* 19.955 to three decimals.                                               *)
(***************************************************************************)
\* a finite lux below 2147 with den <= 2000000, rounded to thousandths
LuxMilli(x) ==
    (x.num \div x.den) * 1000 + (((x.num % x.den) * 1000 + (x.den \div 2)) \div x.den)

C5_LuxFormula ==
    (LuxDone /\ NonDegenerate) =>
        LET c0 == ltr329.c0Data
            c1 == ltr329.c1Data
            den == 10000 * ltr329.alsGainData * ltr329.alsIntData
            lux == ltr329.alsLuxData
        IN /\ branch = 1 => lux = [kind |-> "fin", num |-> 17743 * c0 + 11059 * c1, den |-> den]
           /\ branch = 2 => lux = [kind |-> "fin", num |-> 42785 * c0 - 19548 * c1, den |-> den]
           /\ branch = 3 => lux = [kind |-> "fin", num |-> 5926 * c0 + 1185 * c1, den |-> den]
           /\ (c0 = 1000 /\ c1 = 200 /\ ltr329.alsGainData = 1 /\ ltr329.alsIntData = 100)
                 => (branch = 1 /\ LuxMilli(lux) = 19955)

C5_Witness ==
    /\ LuxDone
    /\ ltr329.c0Data = 1000 /\ ltr329.c1Data = 200
    /\ ltr329.alsGainData = 1 /\ ltr329.alsIntData = 100
    /\ ltr329.alsLuxData = [kind |-> "fin", num |-> 19954800, den |-> 1000000]

(***************************************************************************)
(* C6: for every byte read from the control register the gain decoded is   *)
(* the table value of the code (byte & 0b00011100) >> 2, so it depends     *)
(* only on bits 4..2; the byte 0x01 that initialization writes decodes to  *)
(* gain 1.                                                                 *)
(***************************************************************************)
C6_GainFieldMasked ==
    (pc = "rd_status" /\ RxOk(LTR_329_ALS_CONTR)) =>
        LET byte == RxVal(LTR_329_ALS_CONTR)
        IN /\ ltr329.alsGainData = TableGain(ShiftRight(BitAnd(byte, 28), 2))
           /\ byte = 1 => ltr329.alsGainData = 1

(***************************************************************************)
(* C7: for every byte read from the status register the integration time   *)
(* decoded is the table value of the code (byte & 0b00111000) >> 3, so it  *)
(* depends only on bits 5..3 and no other status bit changes it.           *)
(***************************************************************************)
C7_IntTimeFieldMasked ==
    (pc = "sampled" /\ RxOk(LTR_329_ALS_STATUS)) =>
        ltr329.alsIntData = TableIntTime(ShiftRight(BitAnd(RxVal(LTR_329_ALS_STATUS), 56), 3))

(***************************************************************************)
(* C8: after LTR_329_Read_All with every read succeeding, channel1 is      *)
(* (byte at 0x89 << 8) | byte at 0x88 and channel0 is                      *)
(* (byte at 0x8B << 8) | byte at 0x8A.                                     *)
(***************************************************************************)
AllReadsOk == NumFailed = 0

C8_ChannelAssembly ==
    (pc = "sampled" /\ AllReadsOk) =>
        /\ ltr329.c1Data = 256 * RxVal(137) + RxVal(136)
        /\ ltr329.c0Data = 256 * RxVal(139) + RxVal(138)

C8_Witness ==
    /\ pc = "sampled" /\ AllReadsOk
    /\ RxVal(136) = 0 /\ RxVal(137) = 1 /\ RxVal(138) = 1 /\ RxVal(139) = 0
    /\ ltr329.c1Data = 256 /\ ltr329.c0Data = 1

(***************************************************************************)
(* C9: LTR_329_Read_All issues exactly six register reads, in the order    *)
(* 0x88, 0x89, 0x8A, 0x8B, 0x80, 0x8C, whichever of them fail: a failed    *)
(* read is reported and the remaining reads are still issued.              *)
(***************************************************************************)
ReadOrder == <<136, 137, 138, 139, 128, 140>>
InReadAll == pc \in {"rd_c1hi", "rd_c0lo", "rd_c0hi", "rd_contr", "rd_status", "sampled"}

C9_SixReadsInOrder ==
    InReadAll =>
        /\ AllReads
        /\ Len(busLog) <= 6
        /\ ReadAddrs = SubSeq(ReadOrder, 1, Len(busLog))
        /\ NumReadErrors = NumFailed
        /\ pc = "sampled" => ReadAddrs = ReadOrder

C9_Witness ==
    /\ pc = "sampled"
    /\ ReadAddrs = ReadOrder
    /\ RxFailed(136) /\ RxOk(137) /\ RxFailed(138) /\ RxFailed(139) /\ RxOk(128) /\ RxFailed(140)
    /\ NumReadErrors = 4

(***************************************************************************)
(* C10: when a byte read fails during a sample read, the failure is        *)
(* surfaced and the sample field derived from that byte is not populated   *)
(* with a value that was not read from the bus in that read.               *)
(***************************************************************************)
FieldOf(addr) ==
    CASE addr \in {136, 137} -> "c1Data"
      [] addr \in {138, 139} -> "c0Data"
      [] addr = 128 -> "alsGainData"
      [] OTHER -> "alsIntData"

C10_FailedReadNotStored ==
    pc = "sampled" =>
        \A i \in 1..Len(busLog) :
            ~busLog[i].ok =>
                /\ NumReadErrors >= 1
                /\ FieldOf(busLog[i].addr) \notin stored

(***************************************************************************)
(* C11: in every poll cycle every field of the sample (channel0, channel1, *)
(* decoded gain, decoded integration time) is written from that cycle's    *)
(* bus reads before the lux is computed, and the lux reported is computed  *)
(* from those same-cycle fields, so that no field of the reported sample   *)
(* holds a value that did not come from the cycle's reads.  Stated on the  *)
(* state in which the cycle reports: the log holds the cycle's six reads.  *)
(***************************************************************************)
SampleFields == {"c1Data", "c0Data", "alsGainData", "alsIntData"}

C11_SampleFromThisCycle ==
    LuxDone =>
        /\ stored = SampleFields
        /\ \A a \in {136, 137, 138, 139, 128, 140} : RxOk(a)
        /\ ltr329.c1Data = 256 * RxVal(137) + RxVal(136)
        /\ ltr329.c0Data = 256 * RxVal(139) + RxVal(138)
        /\ ltr329.alsGainData = DecodeGain(RxVal(128))
        /\ ltr329.alsIntData = DecodeIntTime(RxVal(140))
        /\ ltr329.alsLuxData = BranchLux(branch, ltr329)

(***************************************************************************)
(* C12: LTR_329_Calculate_Lux is pure in (channel0, channel1, gain,        *)
(* intTimeMs): the lux it leaves is the one a run on the same four inputs  *)
(* leaves from any other previous lux, and the run changes no field of the *)
(* sample other than the lux.                                              *)
(***************************************************************************)
OtherLuxBefore == LuxBefore \cup {LuxNan, LuxInf(1)}

C12_LuxIsPure ==
    /\ [](LuxDone =>
            \A before \in OtherLuxBefore :
                ltr329.alsLuxData = CalculateLux([ltr329 EXCEPT !.alsLuxData = before]).alsLuxData)
    /\ [][(pc = "sampled" /\ pc' = "idle") =>
            /\ ltr329'.c0Data = ltr329.c0Data
            /\ ltr329'.c1Data = ltr329.c1Data
            /\ ltr329'.alsGainData = ltr329.alsGainData
            /\ ltr329'.alsIntData = ltr329.alsIntData]_vars

C12_Witness ==
    /\ LuxDone /\ NonDegenerate /\ branch = 4
    /\ ltr329.c0Data = 0 /\ ltr329.c1Data = 200
    /\ ltr329.alsGainData = 48 /\ ltr329.alsIntData = 350
    /\ ltr329.alsLuxData = LuxZero

(***************************************************************************)
(* C13: LTR_329_Init issues its bus operations in the fixed order: write   *)
(* 0x02 to the control register 0x80, 25 ms delay, read of the part-ID     *)
(* register 0x86, write 0x01 to 0x80; the last write is issued on every    *)
(* run, also when the reset write fails, the part-ID read fails or the     *)
(* part ID's high nibble is not 0xA.                                       *)
(***************************************************************************)
InitDone == pc = "idle" /\ branch = 0
BusOps == [i \in 1..Len(busLog) |-> <<busLog[i].op, busLog[i].addr, IF busLog[i].op = "read" THEN 0 ELSE busLog[i].val>>]
InitOrder == << <<"write", 128, 2>>, <<"delay", 0, 25>>, <<"read", 134, 0>>, <<"write", 128, 1>> >>

C13_InitOrder ==
    /\ pc = "init_id" => BusOps = SubSeq(InitOrder, 1, 2)
    /\ pc = "init_act" => BusOps = SubSeq(InitOrder, 1, 3)
    /\ InitDone => BusOps = InitOrder

C13_Witness ==
    /\ InitDone
    /\ ~busLog[1].ok
    /\ busLog[3].ok /\ busLog[3].val = 0
    /\ busLog[4] = BusWrite(LTR_329_ALS_CONTR, TRUE, 1)
    /\ uart = <<"I2C Write Error", "I2C Read Error">>

(***************************************************************************)
(* LTR_329_Calculate_Lux on samples at the ends of the 16-bit range and at *)
(* the 0.45 and 0.64 boundaries with a full-scale channel.                 *)
(***************************************************************************)
WideChannels == {0, 1, 15, 85, 36863, 36864, 53619, 53620, 65535}
WideGains == {0, 1, 96}
WideIntTimes == {0, 50, 400}

InitLuxWide ==
    /\ pc = "sampled"
    /\ ltr329 \in [c0Data : WideChannels, c1Data : WideChannels, alsGainData : WideGains,
                   alsIntData : WideIntTimes, alsLuxData : LuxBefore]
    /\ loc = NoLocals
    /\ busLog = <<>>
    /\ uart = <<>>
    /\ stored = {}
    /\ branch = 0

SpecLuxWide == InitLuxWide /\ [][NextLux]_vars

(***************************************************************************)
(* C14: for 16-bit channels with c0 + c1 > 0, gain > 0 and intTimeMs > 0   *)
(* the lux left by LTR_329_Calculate_Lux is never negative, and in the     *)
(* second arm the term 4.2785*c0 - 1.9548*c1 (the numerator of the lux) is *)
(* positive.                                                               *)
(***************************************************************************)
C14_LuxNotNegative ==
    (LuxDone /\ NonDegenerate) =>
        /\ ltr329.alsLuxData.kind = "fin"
        /\ ltr329.alsLuxData.num >= 0
        /\ ltr329.alsLuxData.den > 0
        /\ branch = 2 => ltr329.alsLuxData.num > 0

C14_Witness ==
    /\ LuxDone /\ branch = 2
    /\ ltr329.c0Data = 36864 /\ ltr329.c1Data = 65535
    /\ ltr329.alsGainData = 96 /\ ltr329.alsIntData = 400
    /\ ltr329.alsLuxData.num > 0

(***************************************************************************)
(* C15: the sum c0 + c1 of the guard and of the ratio's denominator does   *)
(* not wrap at 16 bits: it is 0 exactly when both channels are 0, and for  *)
(* sums above 65535 (c0 = 65535, c1 = 1) the input is not degenerate, the  *)
(* ratio lies in [0, 1] and the first arm's formula gives the lux.         *)
(***************************************************************************)
RatioInUnit(r) ==
    r.kind = "zero" \/ (r.kind = "norm" /\ (r.k >= 1 \/ (r.k = 0 /\ r.mant = 8388608)))

C15_SumDoesNotWrap ==
    LET c0 == ltr329.c0Data
        c1 == ltr329.c1Data
        valid == ltr329.alsGainData > 0 /\ ltr329.alsIntData > 0
    IN /\ valid => (Degenerate(ltr329) <=> (c0 = 0 /\ c1 = 0))
       /\ (c0 > 0 \/ c1 > 0) => RatioInUnit(Ratio(ltr329))
       /\ (LuxDone /\ valid /\ c0 = 65535 /\ c1 = 1) =>
             /\ branch = 1
             /\ ltr329.alsLuxData = [kind |-> "fin", num |-> 17743 * 65535 + 11059,
                                     den |-> 10000 * ltr329.alsGainData * ltr329.alsIntData]

C15_Witness ==
    /\ LuxDone /\ branch = 1
    /\ ltr329.c0Data = 65535 /\ ltr329.c1Data = 1
    /\ ltr329.alsGainData = 1 /\ ltr329.alsIntData = 50
    /\ ltr329.alsLuxData = [kind |-> "fin", num |-> 1162798564, den |-> 500000]

====
